---- MODULE Spec2Model ----
(***************************************************************************)
(* The pgtrigger registry (src/pgtrigger/registry.py): the ordered mapping *)
(* URI -> (model, trigger), its two derived views, and the mirroring of    *)
(* every insertion and removal into model._meta.triggers and               *)
(* model._meta.original_attrs["triggers"].                                 *)
(*                                                                         *)
(* A URI, a label and a trigger name are sequences of characters, so that  *)
(* key.split(":") and the f-string f"{label}:{name}" are computed.         *)
(***************************************************************************)
EXTENDS Integers, Sequences, FiniteSets, TLC

\* ------------------------------------------------------------------ bounds

\* Number of calls (and flag changes) a run makes.
MaxSteps == 3

\* ------------------------------------------------------------ the universe

Sep == ":"

Names == {<<"n">>, <<"m">>}

\* The models handed to the registry.  Model 1 and model 2 are two model
\* classes with one label and one table (a class and its re-created twin),
\* model 3 has another label on the same table (a proxy), model 4 has the
\* label of model 3 on another table.
Models ==
    { [id |-> 1, label |-> <<"a">>, db_table |-> "t1"],
      [id |-> 2, label |-> <<"a">>, db_table |-> "t1"],
      [id |-> 3, label |-> <<"b">>, db_table |-> "t1"],
      [id |-> 4, label |-> <<"b">>, db_table |-> "t2"] }

ModelIds == {m.id : m \in Models}

\* Triggers are values: two triggers are equal iff name and definition are.
Defs == {"d1", "d2"}

Triggers == [name : Names, defn : Defs]

\* Placeholders of the record shapes, for "no model" and "no trigger".
NoModel == [id |-> 0, label |-> <<>>, db_table |-> "none"]
NoTrigger == [name |-> <<>>, defn |-> "none"]

\* The value of dict.get(...) when the key is missing.
None == NoTrigger

\* model._meta.triggers and model._meta.original_attrs["triggers"] are each
\* modelled by a record: present is FALSE when the attribute (the dict key)
\* does not exist, items is the list when it does.
Missing == [present |-> FALSE, items |-> <<>>]

a_list(items) == [present |-> TRUE, items |-> items]

\* f"{model._meta.label}:{trigger.name}"
format(label, name) == label \o <<Sep>> \o name

\* The keys the callers pass: every URI of the universe and a key without
\* separator.
Keys == {format(m.label, n) : m \in Models, n \in Names} \cup { <<"n">> }

\* len(key.split(":")): one more than the number of separators in key.
RECURSIVE split_len(_)
split_len(key) ==
    IF key = <<>> THEN 1
    ELSE (IF Head(key) = Sep THEN 1 ELSE 0) + split_len(Tail(key))

\* ---------------------------------------------------------------- state

VARIABLES
    registry,    \* _registry.data: the entries, in insertion order
    triggers,    \* model id -> model._meta.triggers
    original,    \* model id -> model._meta.original_attrs["triggers"]
    migrations,  \* features.migrations()
    last,        \* the last call: its arguments and its outcome
    steps        \* the number of calls made so far

vars == <<registry, triggers, original, migrations, last, steps>>

\* ------------------------------------------------------------ list helpers

Range(s) == {s[i] : i \in 1..Len(s)}

\* x in lst
contains(lst, x) == \E i \in 1..Len(lst) : lst[i] = x

\* The number of elements of lst equal to x.
count(lst, x) == Cardinality({i \in 1..Len(lst) : lst[i] = x})

\* The least index of x in lst (x is in lst).
index(lst, x) == CHOOSE i \in 1..Len(lst) : lst[i] = x /\ \A j \in 1..(i - 1) : lst[j] # x

\* lst.remove(x): lst without its first element equal to x (x is in lst).
remove(lst, x) ==
    LET i == index(lst, x)
    IN  SubSeq(lst, 1, i - 1) \o SubSeq(lst, i + 1, Len(lst))

\* getattr(model._meta, "triggers", []) and original_attrs.get("triggers", [])
get_or_empty(attr) == IF attr.present THEN attr.items ELSE <<>>

\* --------------------------------------------------------- the dict itself

keys(reg) == {reg[i].key : i \in 1..Len(reg)}

\* key in _registry
has_key(reg, key) == key \in keys(reg)

pos(reg, key) == CHOOSE i \in 1..Len(reg) : reg[i].key = key

\* dict.__getitem__ (key is in reg)
lookup(reg, key) == reg[pos(reg, key)]

\* dict.__setitem__: a present key keeps its position, a new key goes last.
store(reg, key, model, trigger) ==
    LET e == [key |-> key, model |-> model, trigger |-> trigger]
    IN  IF has_key(reg, key)
        THEN [reg EXCEPT ![pos(reg, key)] = e]
        ELSE Append(reg, e)

\* dict.__delitem__ (key is in reg)
discard(reg, key) ==
    LET i == pos(reg, key)
    IN  SubSeq(reg, 1, i - 1) \o SubSeq(reg, i + 1, Len(reg))

\* --------------------------------------------------------- derived views

\* trigger.get_pgid(model): pgtrigger.core is not part of the sources; the
\* identifier is derived from the table and the trigger name, and two
\* (table, name) pairs may produce one identifier.
PgidSpace == 2

table_hash(db_table) == IF db_table = "t1" THEN 0 ELSE 1

name_hash(name) == IF name = <<"n">> THEN 0 ELSE 1

get_pgid(trigger, model) == (table_hash(model.db_table) + name_hash(trigger.name)) % PgidSpace

\* {trigger.get_pgid(model) for model, trigger in self.values()}
pg_function_names(reg) == {get_pgid(reg[i].trigger, reg[i].model) : i \in 1..Len(reg)}

\* {(model._meta.db_table, trigger.name): trigger for model, trigger in
\* self.values()}: of the entries with one (table, name) the last one wins.
by_db_table(reg) ==
    LET at(i) == <<reg[i].model.db_table, reg[i].trigger.name>>
    IN  [p \in {at(i) : i \in 1..Len(reg)} |->
            LET j == CHOOSE j \in 1..Len(reg) :
                        at(j) = p /\ \A k \in (j + 1)..Len(reg) : at(k) # p
            IN  reg[j].trigger]

\* dict.get(key): None when the key is missing.
dict_get(d, key) == IF key \in DOMAIN d THEN d[key] ELSE None

\* ------------------------------------------------------------- outcomes

\* The outcome of a call is "ok" or names the raise that ended it:
\*   "MalformedURI"         ValueError, __getitem__: no separator in the key
\*   "NotFound"             KeyError, __getitem__: the key is not registered
\*   "AssertionError"       __setitem__: the key is not f"{label}:{name}"
\*   "DuplicateName"        KeyError, __setitem__: trigger name already used
\*   "DuplicateFunctionId"  KeyError, __setitem__: function name already used
\*   "AttributeError"       __delitem__: _meta has no attribute "triggers"
\*   "ValueError"           __delitem__: list.remove(x), x not in list
\*   "KeyError"             __delitem__: original_attrs has no key "triggers"
Errors ==
    { "MalformedURI", "NotFound", "AssertionError", "DuplicateName",
      "DuplicateFunctionId", "AttributeError", "ValueError", "KeyError" }

NoValue == [model |-> NoModel, trigger |-> NoTrigger]

\* What a handler leaves behind: its outcome, the value it returns and the
\* three pieces of state it may have written.
outcome(error, value, reg, live, orig) ==
    [error |-> error, value |-> value, registry |-> reg, triggers |-> live, original |-> orig]

\* ------------------------------------------------------------- handlers

\* getitem where the membership test of line 39 runs before the separator
\* test of line 35.
getitem_membership_first(reg, key) ==
    IF ~has_key(reg, key)
    THEN [error |-> "NotFound", value |-> NoValue]
    ELSE IF split_len(key) = 1
    THEN [error |-> "MalformedURI", value |-> NoValue]
    ELSE [error |-> "ok",
          value |-> [model |-> lookup(reg, key).model, trigger |-> lookup(reg, key).trigger]]

\* _Registry.__getitem__
getitem(reg, key) ==
    IF split_len(key) = 1
    THEN [error |-> "MalformedURI", value |-> NoValue]
    ELSE IF ~has_key(reg, key)
    THEN [error |-> "NotFound", value |-> NoValue]
    ELSE [error |-> "ok",
          value |-> [model |-> lookup(reg, key).model, trigger |-> lookup(reg, key).trigger]]

\* setitem_error where a trigger found under the table and name always counts
\* as a re-registration ("if not found_trigger:" for line 51).
setitem_error_found_skips(reg, key, model, trigger) ==
    LET found_trigger == dict_get(by_db_table(reg), <<model.db_table, trigger.name>>)
    IN  IF format(model.label, trigger.name) # key
        THEN "AssertionError"
        ELSE IF found_trigger = None
        THEN IF get_pgid(trigger, model) \in pg_function_names(reg)
             THEN "DuplicateFunctionId"
             ELSE "ok"
        ELSE "ok"

\* setitem_error where the function name check also runs for a trigger that
\* is already registered (line 59 moved out of the "if" of line 51).
setitem_error_always_pgid(reg, key, model, trigger) ==
    LET found_trigger == dict_get(by_db_table(reg), <<model.db_table, trigger.name>>)
    IN  IF format(model.label, trigger.name) # key
        THEN "AssertionError"
        ELSE IF found_trigger # None /\ found_trigger # trigger
        THEN "DuplicateName"
        ELSE IF get_pgid(trigger, model) \in pg_function_names(reg)
        THEN "DuplicateFunctionId"
        ELSE "ok"

\* setitem_error where the function name check (line 59) runs before the
\* name check (line 52).
setitem_error_pgid_first(reg, key, model, trigger) ==
    LET found_trigger == dict_get(by_db_table(reg), <<model.db_table, trigger.name>>)
    IN  IF format(model.label, trigger.name) # key
        THEN "AssertionError"
        ELSE IF found_trigger = None \/ found_trigger # trigger
        THEN IF get_pgid(trigger, model) \in pg_function_names(reg)
             THEN "DuplicateFunctionId"
             ELSE IF found_trigger # None
             THEN "DuplicateName"
             ELSE "ok"
        ELSE "ok"

\* setitem_error without the function name check of lines 59-64.
setitem_error_no_pgid_check(reg, key, model, trigger) ==
    LET found_trigger == dict_get(by_db_table(reg), <<model.db_table, trigger.name>>)
    IN  IF format(model.label, trigger.name) # key
        THEN "AssertionError"
        ELSE IF found_trigger # None /\ found_trigger # trigger
        THEN "DuplicateName"
        ELSE "ok"

\* setitem_error without the assertion of line 47.
setitem_error_no_assert(reg, key, model, trigger) ==
    LET found_trigger == dict_get(by_db_table(reg), <<model.db_table, trigger.name>>)
    IN  IF found_trigger = None \/ found_trigger # trigger
        THEN IF found_trigger # None
             THEN "DuplicateName"
             ELSE IF get_pgid(trigger, model) \in pg_function_names(reg)
             THEN "DuplicateFunctionId"
             ELSE "ok"
        ELSE "ok"

\* The checks of _Registry.__setitem__ that precede every write: the key
\* assertion, the name check and the function name check.
setitem_error(reg, key, model, trigger) ==
    LET found_trigger == dict_get(by_db_table(reg), <<model.db_table, trigger.name>>)
    IN  IF format(model.label, trigger.name) # key
        THEN "AssertionError"
        ELSE IF found_trigger = None \/ found_trigger # trigger
        THEN IF found_trigger # None
             THEN "DuplicateName"
             ELSE IF get_pgid(trigger, model) \in pg_function_names(reg)
             THEN "DuplicateFunctionId"
             ELSE "ok"
        ELSE "ok"

\* add_trigger that puts a new trigger first.
add_trigger_prepends(attr, trigger) ==
    IF contains(get_or_empty(attr), trigger)
    THEN attr
    ELSE a_list(<<trigger>> \o get_or_empty(attr))

\* add_trigger without the membership test of lines 70 and 73.
add_trigger_unconditional(attr, trigger) == a_list(Append(get_or_empty(attr), trigger))

\* if trigger not in <list or []>: <list> = list(<list or []>) + [trigger]
add_trigger(attr, trigger) ==
    IF contains(get_or_empty(attr), trigger)
    THEN attr
    ELSE a_list(Append(get_or_empty(attr), trigger))

\* setitem where the mirroring of lines 69-76 runs before the checks.
setitem_mirror_first(reg, live, orig, sync, key, model, trigger) ==
    LET error == setitem_error(reg, key, model, trigger)
        live2 == IF sync THEN [live EXCEPT ![model.id] = add_trigger(@, trigger)] ELSE live
        orig2 == IF sync THEN [orig EXCEPT ![model.id] = add_trigger(@, trigger)] ELSE orig
    IN  IF error # "ok"
        THEN outcome(error, NoValue, reg, live2, orig2)
        ELSE outcome("ok", NoValue, store(reg, key, model, trigger), live2, orig2)

\* _Registry.__setitem__
setitem(reg, live, orig, sync, key, model, trigger) ==
    LET error == setitem_error(reg, key, model, trigger)
    IN  IF error # "ok"
        THEN outcome(error, NoValue, reg, live, orig)
        ELSE outcome("ok", NoValue,
                     store(reg, key, model, trigger),
                     IF sync THEN [live EXCEPT ![model.id] = add_trigger(@, trigger)] ELSE live,
                     IF sync THEN [orig EXCEPT ![model.id] = add_trigger(@, trigger)] ELSE orig)

\* delitem without the removal from the dict of line 83.
delitem_keeps_entry(reg, live, orig, sync, key) ==
    LET got == getitem(reg, key)
    IN  IF got.error # "ok"
        THEN outcome(got.error, NoValue, reg, live, orig)
        ELSE outcome("ok", NoValue, reg, live, orig)

\* delitem without the test of features.migrations() of line 86.
delitem_always_mirrors(reg, live, orig, sync, key) ==
    LET got == getitem(reg, key)
        model == got.value.model
        trigger == got.value.trigger
        reg2 == discard(reg, key)
        live2 == [live EXCEPT ![model.id] = a_list(remove(@.items, trigger))]
        orig2 == [orig EXCEPT ![model.id] = a_list(remove(@.items, trigger))]
    IN  IF got.error # "ok"
        THEN outcome(got.error, NoValue, reg, live, orig)
        ELSE IF ~live[model.id].present
        THEN outcome("AttributeError", NoValue, reg2, live, orig)
        ELSE IF ~contains(live[model.id].items, trigger)
        THEN outcome("ValueError", NoValue, reg2, live, orig)
        ELSE IF ~orig[model.id].present
        THEN outcome("KeyError", NoValue, reg2, live2, orig)
        ELSE IF contains(orig[model.id].items, trigger)
        THEN outcome("ok", NoValue, reg2, live2, orig2)
        ELSE outcome("ok", NoValue, reg2, live2, orig)

\* _Registry.__delitem__
delitem(reg, live, orig, sync, key) ==
    LET got == getitem(reg, key)
        model == got.value.model
        trigger == got.value.trigger
        reg2 == discard(reg, key)
        live2 == [live EXCEPT ![model.id] = a_list(remove(@.items, trigger))]
        orig2 == [orig EXCEPT ![model.id] = a_list(remove(@.items, trigger))]
    IN  IF got.error # "ok"
        THEN outcome(got.error, NoValue, reg, live, orig)
        ELSE IF ~sync
        THEN outcome("ok", NoValue, reg2, live, orig)
        ELSE IF ~live[model.id].present
        THEN outcome("AttributeError", NoValue, reg2, live, orig)
        ELSE IF ~contains(live[model.id].items, trigger)
        THEN outcome("ValueError", NoValue, reg2, live, orig)
        ELSE IF ~orig[model.id].present
        THEN outcome("KeyError", NoValue, reg2, live2, orig)
        ELSE IF contains(orig[model.id].items, trigger)
        THEN outcome("ok", NoValue, reg2, live2, orig2)
        ELSE outcome("ok", NoValue, reg2, live2, orig)

\* ----------------------------------------------------------- the calls

\* The entry (key, model, trigger) is in the registry.
is_stored(reg, key, model, trigger) ==
    has_key(reg, key) /\ lookup(reg, key) = [key |-> key, model |-> model, trigger |-> trigger]

\* How a call relates to what came before it: "set" when the call before it
\* was a successful set with the same key (and, for a set, the same model and
\* trigger), "delete" when that was a successful delete of the same key,
\* "stored" for a set of an entry that is in the registry as it is called.
follows(prev, op, key, model, trigger) ==
    IF prev.key = key /\ prev.error = "ok" /\ prev.op = "set"
          /\ (op = "set" => prev.model = model /\ prev.trigger = trigger)
    THEN "set"
    ELSE IF prev.key = key /\ prev.error = "ok" /\ prev.op = "delete"
    THEN "delete"
    ELSE IF op = "set" /\ is_stored(registry, key, model, trigger)
    THEN "stored"
    ELSE "other"

\* The record of a call: the arguments, the flag it ran under, its outcome.
call(op, key, model, trigger, sync, error, value, after) ==
    [op |-> op, key |-> key, model |-> model, trigger |-> trigger,
     sync |-> sync, error |-> error, value |-> value, follows |-> after]

Init ==
    /\ registry = <<>>
    /\ triggers = [i \in ModelIds |-> Missing]
    /\ original = [i \in ModelIds |-> Missing]
    /\ migrations \in BOOLEAN
    /\ last = call("init", <<>>, NoModel, NoTrigger, migrations, "ok", NoValue, "other")
    /\ steps = 0

\* One more call, while the run has calls left.
Step ==
    /\ steps < MaxSteps
    /\ steps' = steps + 1

\* set(uri, model=model, trigger=trigger)
Set(key, model, trigger) ==
    LET r == setitem(registry, triggers, original, migrations, key, model, trigger)
    IN  /\ Step
        /\ registry' = r.registry
        /\ triggers' = r.triggers
        /\ original' = r.original
        /\ last' = call("set", key, model, trigger, migrations, r.error, r.value,
                        follows(last, "set", key, model, trigger))
        /\ UNCHANGED migrations

\* delete(uri)
Delete(key) ==
    LET r == delitem(registry, triggers, original, migrations, key)
    IN  /\ Step
        /\ registry' = r.registry
        /\ triggers' = r.triggers
        /\ original' = r.original
        /\ last' = call("delete", key, NoModel, NoTrigger, migrations, r.error, r.value,
                        follows(last, "delete", key, NoModel, NoTrigger))
        /\ UNCHANGED migrations

\* _registry[uri]
Get(key) ==
    LET r == getitem(registry, key)
    IN  /\ Step
        /\ last' = call("get", key, NoModel, NoTrigger, migrations, r.error, r.value,
                        follows(last, "get", key, NoModel, NoTrigger))
        /\ UNCHANGED <<registry, triggers, original, migrations>>

\* The application changes the setting that features.migrations() reads.
Toggle ==
    /\ Step
    /\ migrations' = ~migrations
    /\ last' = call("toggle", <<>>, NoModel, NoTrigger, migrations', "ok", NoValue, "other")
    /\ UNCHANGED <<registry, triggers, original>>

Next ==
    \/ \E key \in Keys, model \in Models, trigger \in Triggers : Set(key, model, trigger)
    \/ \E key \in Keys : Delete(key)
    \/ \E key \in Keys : Get(key)
    \/ Toggle

Spec == Init /\ [][Next]_vars

\* The registry where synchronization is enabled for every call.
InitSync == Init /\ migrations = TRUE

NextSync ==
    \/ \E key \in Keys, model \in Models, trigger \in Triggers : Set(key, model, trigger)
    \/ \E key \in Keys : Delete(key)
    \/ \E key \in Keys : Get(key)

SpecSync == InitSync /\ [][NextSync]_vars

\* ------------------------------------------------------ registered(*uris)

\* The arguments of registered: no URI, one URI, two URIs.
UriLists ==
    {<<>>} \cup {<<k>> : k \in Keys} \cup {<<k1, k2>> : k1, k2 \in Keys}

\* list(_registry.keys()): the keys in the order of the dict
key_list(reg) == [i \in 1..Len(reg) |-> reg[i].key]

\* The results of the lookups of targets, and the error of the first of them
\* that fails.
lookups(reg, targets) ==
    LET got == [i \in 1..Len(targets) |-> getitem(reg, targets[i])]
        failed == {i \in 1..Len(targets) : got[i].error # "ok"}
        first == CHOOSE i \in failed : \A j \in failed : i <= j
    IN  IF failed = {}
        THEN [error |-> "ok", values |-> [i \in 1..Len(targets) |-> got[i].value]]
        ELSE [error |-> got[first].error, values |-> <<>>]

\* registered that takes every key of the registry whatever it is given.
registered_all(reg, uris) == lookups(reg, key_list(reg))

\* registered: [_registry[uri] for uri in uris or _registry.keys()]
registered(reg, uris) ==
    lookups(reg, IF uris # <<>> THEN uris ELSE key_list(reg))

\* A call of registered: the URIs it was given and the list it returned.
listing(uris, sync, error, values, after) ==
    [op |-> "registered", key |-> <<>>, model |-> NoModel, trigger |-> NoTrigger,
     sync |-> sync, error |-> error, value |-> NoValue, follows |-> after,
     uris |-> uris, values |-> values]

\* registered(*uris)
Registered(uris) ==
    LET r == registered(registry, uris)
    IN  /\ Step
        /\ last' = listing(uris, migrations, r.error, r.values,
                           IF last.op = "delete" /\ last.error = "ok"
                           THEN "delete" ELSE "other")
        /\ UNCHANGED <<registry, triggers, original, migrations>>

NextRegistered ==
    \/ \E model \in Models, trigger \in Triggers :
          Set(format(model.label, trigger.name), model, trigger)
    \/ \E key \in Keys : Delete(key)
    \/ \E uris \in UriLists : Registered(uris)

\* The registry with the calls set (under the key of the model and the
\* trigger), delete and registered.
SpecRegistered == Init /\ [][NextRegistered]_vars

\* ---------------------------------------------------- register(*triggers)

\* The arguments of register: no trigger, one trigger, two triggers.
TriggerLists ==
    {<<>>} \cup {<<t>> : t \in Triggers} \cup {<<t1, t2>> : t1, t2 \in Triggers}

\* Trigger.register(model): set with the URI made of the label of the model
\* and the name of the trigger.
trigger_register(reg, live, orig, sync, trigger, model) ==
    setitem(reg, live, orig, sync, format(model.label, trigger.name), model, trigger)

\* The loop of _model_wrapper from trigger i on: the state it leaves, the sets
\* it has made and the model it returns. An error ends the loop.
RECURSIVE wrap(_, _, _, _, _, _, _, _)
wrap(reg, live, orig, sync, trigs, model, i, calls) ==
    IF i > Len(trigs)
    THEN [error |-> "ok", registry |-> reg, triggers |-> live, original |-> orig,
          calls |-> calls, returned |-> model]
    ELSE LET r == trigger_register(reg, live, orig, sync, trigs[i], model)
             c == [key |-> format(model.label, trigs[i].name), model |-> model,
                   trigger |-> trigs[i], error |-> r.error]
         IN  IF r.error # "ok"
             THEN [error |-> r.error, registry |-> r.registry, triggers |-> r.triggers,
                   original |-> r.original, calls |-> Append(calls, c),
                   returned |-> NoModel]
             ELSE wrap(r.registry, r.triggers, r.original, sync, trigs, model,
                       i + 1, Append(calls, c))

reversed(seq) == [i \in 1..Len(seq) |-> seq[Len(seq) + 1 - i]]

\* _model_wrapper that takes the triggers from the last to the first.
model_wrapper_reversed(reg, live, orig, sync, trigs, model) ==
    wrap(reg, live, orig, sync, reversed(trigs), model, 1, <<>>)

\* _model_wrapper(model_class) of register(*trigs)
model_wrapper(reg, live, orig, sync, trigs, model) ==
    wrap(reg, live, orig, sync, trigs, model, 1, <<>>)

\* A call of register or of the function it returned: the triggers of the
\* closure, the sets the function made and the model it returned.
wrapping(op, model, sync, error, wrapped, calls, returned) ==
    [op |-> op, key |-> <<>>, model |-> model, trigger |-> NoTrigger,
     sync |-> sync, error |-> error, value |-> NoValue, follows |-> "other",
     wrapped |-> wrapped, calls |-> calls, returned |-> returned]

\* register(*trigs): returns _model_wrapper, closed over trigs
Register(trigs) ==
    /\ Step
    /\ last' = wrapping("register", NoModel, migrations, "ok", trigs, <<>>, NoModel)
    /\ UNCHANGED <<registry, triggers, original, migrations>>

\* The function that the last call of register returned is applied to model.
Apply(model) ==
    /\ last.op \in {"register", "apply"}
    /\ LET r == model_wrapper(registry, triggers, original, migrations,
                              last.wrapped, model)
       IN  /\ Step
           /\ registry' = r.registry
           /\ triggers' = r.triggers
           /\ original' = r.original
           /\ last' = wrapping("apply", model, migrations, r.error, last.wrapped,
                               r.calls, r.returned)
           /\ UNCHANGED migrations

NextRegister ==
    \/ \E key \in Keys, model \in Models, trigger \in Triggers : Set(key, model, trigger)
    \/ \E trigs \in TriggerLists : Register(trigs)
    \/ \E model \in Models : Apply(model)

\* The registry with the calls set and register.
SpecRegister == Init /\ [][NextRegister]_vars

\* ------------------------------------------- the lists, written from outside

\* What the code that builds model._meta leaves in a list of triggers: no
\* attribute or key, an empty list, a list of one trigger.
SeedLists ==
    {Missing, a_list(<<>>)} \cup {a_list(<<t>>) : t \in Triggers}

\* The application, not the registry, assigns model._meta.triggers of the
\* model of this id.
SeedLive(id, attr) ==
    /\ Step
    /\ triggers' = [triggers EXCEPT ![id] = attr]
    /\ last' = call("seed", <<>>, NoModel, NoTrigger, migrations, "ok", NoValue, "other")
    /\ UNCHANGED <<registry, original, migrations>>

\* The application, not the registry, assigns
\* model._meta.original_attrs["triggers"] of the model of this id.
SeedOriginal(id, attr) ==
    /\ Step
    /\ original' = [original EXCEPT ![id] = attr]
    /\ last' = call("seed", <<>>, NoModel, NoTrigger, migrations, "ok", NoValue, "other")
    /\ UNCHANGED <<registry, triggers, migrations>>

NextMeta ==
    \/ \E model \in Models, trigger \in Triggers :
          Set(format(model.label, trigger.name), model, trigger)
    \/ \E key \in Keys : Delete(key)
    \/ \E id \in ModelIds, attr \in SeedLists : SeedLive(id, attr)
    \/ \E id \in ModelIds, attr \in SeedLists : SeedOriginal(id, attr)

\* The registry where synchronization is enabled, with the calls set (under
\* the key of the model and the trigger) and delete, on models whose lists
\* the application writes too.
SpecMeta == InitSync /\ [][NextMeta]_vars

\* ------------------------------------------- the handlers, line by line

\* A call of set or delete at a line of its handler: pc is the write it makes
\* next ("live", "original", "store"), or "done" once it has returned or
\* raised; error is "running" until then.
stepping(op, key, model, trigger, sync, error, pc) ==
    [op |-> op, key |-> key, model |-> model, trigger |-> trigger,
     sync |-> sync, error |-> error, value |-> NoValue, follows |-> "other",
     pc |-> pc]

\* No call is between two of its lines.
idle == last.error # "running"

\* __setitem__ that writes the dict before it mirrors.
set_pc_after_store_first(pc, sync) ==
    IF pc = "check" THEN "store"
    ELSE IF pc = "store" THEN (IF sync THEN "live" ELSE "done")
    ELSE IF pc = "live" THEN "original"
    ELSE "done"

\* The write of __setitem__ that comes after the one at pc: the checks of
\* lines 45-64, the live list (70-71) and the original list (73-76) when
\* features.migrations() holds, the dict (78).
set_pc_after(pc, sync) ==
    IF pc = "check" THEN (IF sync THEN "live" ELSE "store")
    ELSE IF pc = "live" THEN "original"
    ELSE IF pc = "original" THEN "store"
    ELSE "done"

\* The call goes on to the write at pc, or returns.
advance(pc) ==
    last' = stepping(last.op, last.key, last.model, last.trigger, last.sync,
                     IF pc = "done" THEN "ok" ELSE "running", pc)

\* The call raises error.
raise(error) ==
    last' = stepping(last.op, last.key, last.model, last.trigger, last.sync,
                     error, "done")

\* set(uri, model=model, trigger=trigger): lines 45-69
SetBegin(key, model, trigger) ==
    LET error == setitem_error(registry, key, model, trigger)
    IN  /\ idle
        /\ Step
        /\ last' = IF error # "ok"
                   THEN stepping("set", key, model, trigger, migrations, error, "done")
                   ELSE stepping("set", key, model, trigger, migrations, "running",
                                 set_pc_after("check", migrations))
        /\ UNCHANGED <<registry, triggers, original, migrations>>

\* __setitem__: lines 70-71
SetMirrorLive ==
    /\ last.op = "set" /\ ~idle /\ last.pc = "live"
    /\ triggers' = [triggers EXCEPT ![last.model.id] = add_trigger(@, last.trigger)]
    /\ advance(set_pc_after("live", last.sync))
    /\ UNCHANGED <<registry, original, migrations, steps>>

\* __setitem__: lines 73-76
SetMirrorOriginal ==
    /\ last.op = "set" /\ ~idle /\ last.pc = "original"
    /\ original' = [original EXCEPT ![last.model.id] = add_trigger(@, last.trigger)]
    /\ advance(set_pc_after("original", last.sync))
    /\ UNCHANGED <<registry, triggers, migrations, steps>>

\* __setitem__: line 78
SetStore ==
    /\ last.op = "set" /\ ~idle /\ last.pc = "store"
    /\ registry' = store(registry, last.key, last.model, last.trigger)
    /\ advance(set_pc_after("store", last.sync))
    /\ UNCHANGED <<triggers, original, migrations, steps>>

\* delete(uri): line 81
DeleteBegin(key) ==
    LET got == getitem(registry, key)
    IN  /\ idle
        /\ Step
        /\ last' = IF got.error # "ok"
                   THEN stepping("delete", key, NoModel, NoTrigger, migrations,
                                 got.error, "done")
                   ELSE stepping("delete", key, got.value.model, got.value.trigger,
                                 migrations, "running", "store")
        /\ UNCHANGED <<registry, triggers, original, migrations>>

\* __delitem__: lines 83-86
DeleteStore ==
    /\ last.op = "delete" /\ ~idle /\ last.pc = "store"
    /\ registry' = discard(registry, last.key)
    /\ advance(IF last.sync THEN "live" ELSE "done")
    /\ UNCHANGED <<triggers, original, migrations, steps>>

\* __delitem__: line 87
DeleteLive ==
    /\ last.op = "delete" /\ ~idle /\ last.pc = "live"
    /\ IF ~triggers[last.model.id].present
       THEN raise("AttributeError") /\ UNCHANGED triggers
       ELSE IF ~contains(triggers[last.model.id].items, last.trigger)
       THEN raise("ValueError") /\ UNCHANGED triggers
       ELSE /\ triggers' = [triggers EXCEPT ![last.model.id] =
                               a_list(remove(@.items, last.trigger))]
            /\ advance("original")
    /\ UNCHANGED <<registry, original, migrations, steps>>

\* __delitem__: lines 90-91
DeleteOriginal ==
    /\ last.op = "delete" /\ ~idle /\ last.pc = "original"
    /\ IF ~original[last.model.id].present
       THEN raise("KeyError") /\ UNCHANGED original
       ELSE IF contains(original[last.model.id].items, last.trigger)
       THEN /\ original' = [original EXCEPT ![last.model.id] =
                               a_list(remove(@.items, last.trigger))]
            /\ advance("done")
       ELSE advance("done") /\ UNCHANGED original
    /\ UNCHANGED <<registry, triggers, migrations, steps>>

\* The application changes the setting between two calls.
ToggleIdle == idle /\ Toggle

NextSteps ==
    \/ \E model \in Models, trigger \in Triggers :
          SetBegin(format(model.label, trigger.name), model, trigger)
    \/ SetMirrorLive
    \/ SetMirrorOriginal
    \/ SetStore
    \/ \E key \in Keys : DeleteBegin(key)
    \/ DeleteStore
    \/ DeleteLive
    \/ DeleteOriginal
    \/ ToggleIdle

\* The registry with set and delete taken one write at a time; a call runs
\* to its end before the next one starts.
SpecSteps == Init /\ [][NextSteps]_vars

\* ------------------------------------------------------------ properties

\* The (table, name) pair and the function name of the i-th entry.
table_name(reg, i) == <<reg[i].model.db_table, reg[i].trigger.name>>

pgid_at(reg, i) == get_pgid(reg[i].trigger, reg[i].model)

\* C1: in every reachable state, two entries whose models have the same
\* table and whose triggers have the same name hold equal triggers.
C1_SameTableAndNameSameTrigger ==
    \A i, j \in 1..Len(registry) :
        table_name(registry, i) = table_name(registry, j)
            => registry[i].trigger = registry[j].trigger

\* C1 witness: a set has just stored a second entry for a (table, name) pair
\* that another entry already has.
C1_Witness ==
    /\ last.op = "set" /\ last.error = "ok"
    /\ \E i, j \in 1..Len(registry) :
          /\ i # j
          /\ registry[j].key = last.key
          /\ table_name(registry, i) = table_name(registry, j)

\* C2: in every reachable state, two entries stored under distinct URIs
\* differ in their (table, name) pair and in their function name.
C2_DistinctUrisDistinctPairsAndPgids ==
    \A i, j \in 1..Len(registry) :
        registry[i].key # registry[j].key
            => /\ table_name(registry, i) # table_name(registry, j)
               /\ pgid_at(registry, i) # pgid_at(registry, j)

\* C3: a set that fails leaves the registry and the triggers and
\* original_attrs["triggers"] lists of every model as they were.
C3_FailedSetChangesNothing ==
    [][(last'.op = "set" /\ last'.error # "ok")
          => UNCHANGED <<registry, triggers, original>>]_vars

\* C3 witness: a set has failed on the function name check, with
\* synchronization enabled and a non-empty registry.
C3_Witness ==
    /\ last.op = "set" /\ last.error = "DuplicateFunctionId"
    /\ last.sync
    /\ registry # <<>>

\* The triggers of the entries that model owns.
triggers_of(reg, model) == {reg[i].trigger : i \in {j \in 1..Len(reg) : reg[j].model = model}}

\* lst holds every trigger of the set once and holds nothing else.
holds_exactly(lst, set) ==
    \A t \in Triggers : count(lst, t) = (IF t \in set THEN 1 ELSE 0)

\* C4: with synchronization enabled for every call and both lists of every
\* model starting without content, in every reachable state each list of a
\* model holds exactly once every trigger of the model's entries, and holds
\* no other trigger.
C4_ListsHoldExactlyTheEntries ==
    \A m \in Models :
        /\ holds_exactly(get_or_empty(triggers[m.id]), triggers_of(registry, m))
        /\ holds_exactly(get_or_empty(original[m.id]), triggers_of(registry, m))

\* C5: a set that directly follows a successful set with the same key, model
\* and trigger succeeds, although the function name of the trigger is
\* registered; it leaves the registry as it was, with one entry under the key,
\* and each list of the model holds the trigger at most once (once, when
\* synchronization is enabled).
C5_RepeatedSetIsIdempotent ==
    [][(/\ last.op = "set" /\ last.error = "ok"
        /\ last'.op = "set"
        /\ last'.key = last.key /\ last'.model = last.model /\ last'.trigger = last.trigger)
          => /\ get_pgid(last'.trigger, last'.model) \in pg_function_names(registry)
             /\ last'.error = "ok"
             /\ registry' = registry
             /\ Cardinality({i \in 1..Len(registry') : registry'[i].key = last'.key}) = 1
             /\ \A lst \in {get_or_empty(triggers'[last'.model.id]),
                              get_or_empty(original'[last'.model.id])} :
                   /\ count(lst, last'.trigger) <= 1
                   /\ last'.sync => count(lst, last'.trigger) = 1]_vars

\* C5 witness: the second of two identical sets has run, with synchronization
\* enabled.
C5_Witness ==
    /\ last.op = "set" /\ last.follows = "set" /\ last.error = "ok"
    /\ last.sync

\* Some entry has the table and the name of the candidate and another trigger.
name_taken(reg, model, trigger) ==
    \E i \in 1..Len(reg) :
        /\ table_name(reg, i) = <<model.db_table, trigger.name>>
        /\ reg[i].trigger # trigger

\* C6, as claimed: whenever an entry has the table and the name of the
\* candidate and another trigger, set fails with DuplicateName, whatever the
\* URI passed to it.
C6_NameTakenAlwaysDuplicateName ==
    [][(last'.op = "set" /\ name_taken(registry, last'.model, last'.trigger))
          => last'.error = "DuplicateName"]_vars

\* C6, amended: whenever an entry has the table and the name of the candidate
\* and another trigger, a set whose URI is f"{label}:{name}" of the candidate
\* fails with DuplicateName, whatever the function name of the candidate, the
\* URI of the entry and the flag.
C6_NameTakenDuplicateNameForMatchingKey ==
    [][(/\ last'.op = "set"
        /\ last'.key = format(last'.model.label, last'.trigger.name)
        /\ name_taken(registry, last'.model, last'.trigger))
          => last'.error = "DuplicateName"]_vars

\* C6 witness: a set has failed with DuplicateName on a URI that is not
\* registered, with synchronization disabled.
C6_Witness ==
    /\ last.op = "set" /\ last.error = "DuplicateName"
    /\ ~has_key(registry, last.key)
    /\ ~last.sync

\* C7: when no entry has the table and the name of the candidate and some
\* entry has its function name, a set (with the URI of the candidate) fails
\* with DuplicateFunctionId and leaves the registry as it was.
C7_PgidTakenDuplicateFunctionId ==
    [][(/\ last'.op = "set"
        /\ last'.key = format(last'.model.label, last'.trigger.name)
        /\ <<last'.model.db_table, last'.trigger.name>> \notin DOMAIN by_db_table(registry)
        /\ \E i \in 1..Len(registry) :
              pgid_at(registry, i) = get_pgid(last'.trigger, last'.model))
          => /\ last'.error = "DuplicateFunctionId"
             /\ registry' = registry]_vars

\* C7 witness: a set has failed with DuplicateFunctionId and the entry with
\* that function name is in the registry.
C7_Witness ==
    /\ last.op = "set" /\ last.error = "DuplicateFunctionId"
    /\ \E i \in 1..Len(registry) :
          /\ pgid_at(registry, i) = get_pgid(last.trigger, last.model)
          /\ table_name(registry, i) # <<last.model.db_table, last.trigger.name>>

\* C8: the entry stored under a URI changes only by a delete of the URI: a
\* set on a registered URI fails or leaves the registry as it was.
C8_EntryChangesOnlyByDelete ==
    [][/\ \A i \in 1..Len(registry) :
            has_key(registry', registry[i].key)
                => lookup(registry', registry[i].key) = registry[i]
       /\ (last'.op = "set" /\ has_key(registry, last'.key))
            => (last'.error # "ok" \/ registry' = registry)]_vars

\* C9: a get that directly follows a successful set of a URI that was not
\* registered returns the model and the trigger of that set; a get or a
\* delete that directly follows a successful delete of the URI fails with
\* NotFound.
C9_RoundTrip ==
    [][/\ (/\ last.op = "set" /\ last.error = "ok"
           /\ last'.op = "get" /\ last'.key = last.key)
            => /\ last'.error = "ok"
               /\ last'.value = [model |-> last.model, trigger |-> last.trigger]
       /\ (/\ last.op = "delete" /\ last.error = "ok"
           /\ last'.op \in {"get", "delete"} /\ last'.key = last.key)
            => last'.error = "NotFound"]_vars

\* C9 witness: a delete has failed with NotFound right after a successful
\* delete of the same URI.
C9_Witness ==
    /\ last.op = "delete" /\ last.follows = "delete"
    /\ last.error = "NotFound"

\* C10: while synchronization is disabled, set and delete leave both lists of
\* every model as they were, and the delete of a registered URI succeeds and
\* removes the entry.
C10_DisabledSyncTouchesOnlyTheRegistry ==
    [][(~migrations /\ last'.op \in {"set", "delete"})
          => /\ triggers' = triggers
             /\ original' = original
             /\ (last'.op = "delete" /\ has_key(registry, last'.key))
                  => (last'.error = "ok" /\ ~has_key(registry', last'.key))]_vars

\* C10 witness: a delete has succeeded with synchronization disabled while no
\* model has a list.
C10_Witness ==
    /\ last.op = "delete" /\ last.error = "ok"
    /\ ~last.sync
    /\ \A i \in ModelIds : ~triggers[i].present /\ ~original[i].present

\* C11: a set with a key without separator fails with MalformedURI, the
\* outcome of get and delete for such a key.
C11_SetMalformedKeyMalformedURI ==
    [][(last'.op = "set" /\ split_len(last'.key) = 1)
          => last'.error = "MalformedURI"]_vars

\* C12: a get and a delete with a key without separator fail with
\* MalformedURI in every state of the registry, and leave the registry and
\* both lists of every model as they were.
C12_GetDeleteMalformedKey ==
    [][(last'.op \in {"get", "delete"} /\ split_len(last'.key) = 1)
          => /\ last'.error = "MalformedURI"
             /\ UNCHANGED <<registry, triggers, original>>]_vars

\* C12 witness: a delete with a key without separator has failed with
\* MalformedURI on a registry that holds entries.
C12_Witness ==
    /\ last.op = "delete" /\ split_len(last.key) = 1
    /\ last.error = "MalformedURI"
    /\ registry # <<>>

\* C15: every entry is stored under f"{label}:{name}" of its model and
\* trigger, and a set with another key fails on the assertion and leaves the
\* registry and both lists of every model as they were.
C15_KeysAreConsistent ==
    [][/\ \A i \in 1..Len(registry') :
            registry'[i].key = format(registry'[i].model.label, registry'[i].trigger.name)
       /\ (last'.op = "set" /\ last'.key # format(last'.model.label, last'.trigger.name))
            => /\ last'.error = "AssertionError"
               /\ UNCHANGED <<registry, triggers, original>>]_vars

\* C15 witness: a set with the key of another model has failed on the
\* assertion, on a registry that holds entries.
C15_Witness ==
    /\ last.op = "set" /\ last.error = "AssertionError"
    /\ split_len(last.key) # 1
    /\ registry # <<>>

\* C16: a delete that fails leaves the registry and both lists of every model
\* as they were.
C16_FailedDeleteChangesNothing ==
    [][(last'.op = "delete" /\ last'.error # "ok")
          => UNCHANGED <<registry, triggers, original>>]_vars

\* C18, as claimed: a set of an entry that is in the registry leaves the
\* registry and both lists of every model as they were.
C18_ReRegistrationChangesNothing ==
    [][(/\ last'.op = "set"
        /\ is_stored(registry, last'.key, last'.model, last'.trigger))
          => UNCHANGED <<registry, triggers, original>>]_vars

\* The list attr after a set of trigger that ran the mirroring (sync) or not.
mirrored(attr, trigger, sync) ==
    IF sync /\ ~contains(get_or_empty(attr), trigger)
    THEN a_list(Append(get_or_empty(attr), trigger))
    ELSE attr

\* C18, amended: a set of an entry that is in the registry succeeds and leaves
\* the registry and the lists of the other models as they were; it leaves a
\* list of its model as it was when synchronization is disabled or the list
\* holds the trigger, and appends the trigger to it otherwise.
C18_ReRegistrationMirrorsMissingTrigger ==
    [][(/\ last'.op = "set"
        /\ is_stored(registry, last'.key, last'.model, last'.trigger))
          => /\ last'.error = "ok"
             /\ registry' = registry
             /\ triggers' = [triggers EXCEPT ![last'.model.id] =
                                mirrored(@, last'.trigger, migrations)]
             /\ original' = [original EXCEPT ![last'.model.id] =
                                mirrored(@, last'.trigger, migrations)]]_vars

\* C18 witness: a set of an entry that was in the registry has run with
\* synchronization enabled, after a call of another kind.
C18_Witness ==
    /\ last.op = "set" /\ last.follows = "stored" /\ last.error = "ok"
    /\ last.sync

\* The (model, trigger) pair of an entry.
pair(entry) == [model |-> entry.model, trigger |-> entry.trigger]

\* The first position of uris whose URI has no separator or is not a key of reg.
first_bad(reg, uris) ==
    CHOOSE i \in 1..Len(uris) :
        /\ split_len(uris[i]) = 1 \/ ~has_key(reg, uris[i])
        /\ \A j \in 1..(i - 1) : split_len(uris[j]) # 1 /\ has_key(reg, uris[j])

\* C14: registered() returns the pairs of exactly the entries of the registry,
\* in its order; registered(u1, ..., un) returns the pairs stored under the
\* URIs in the order of the request, and fails with MalformedURI or NotFound
\* when one of them has no separator or is absent; the registry and the lists
\* of every model stay as they were.
C14_RegisteredListsTheEntries ==
    [][last'.op = "registered" =>
        /\ UNCHANGED <<registry, triggers, original>>
        /\ last'.uris = <<>> =>
              /\ last'.error = "ok"
              /\ last'.values = [i \in 1..Len(registry) |-> pair(registry[i])]
        /\ last'.uris # <<>> =>
              IF \A i \in 1..Len(last'.uris) :
                    split_len(last'.uris[i]) # 1 /\ has_key(registry, last'.uris[i])
              THEN /\ last'.error = "ok"
                   /\ last'.values = [i \in 1..Len(last'.uris) |->
                                        pair(lookup(registry, last'.uris[i]))]
              ELSE last'.error =
                     IF split_len(last'.uris[first_bad(registry, last'.uris)]) = 1
                     THEN "MalformedURI" ELSE "NotFound"]_vars

\* C14 witness: registered has returned two entries in the order of the
\* request, which is the reverse of their order in the registry.
C14_Witness ==
    /\ last.op = "registered" /\ last.error = "ok"
    /\ Len(registry) = 2 /\ Len(last.uris) = 2
    /\ last.uris[1] = registry[2].key /\ last.uris[2] = registry[1].key
    /\ last.values = <<pair(registry[2]), pair(registry[1])>>

\* C13: register changes neither the registry nor a list of a model. The
\* function it returns, applied to a model, makes one set for each trigger, in
\* the order of the arguments, with the key f"{label}:{name}", up to the first
\* set that fails, whose error it raises; when no set fails every trigger is
\* in the registry under its key and the function returns the model.
C13_RegisterSetsEachTriggerInOrder ==
    [][/\ last'.op = "register" => UNCHANGED <<registry, triggers, original>>
       /\ last'.op = "apply" =>
            LET trigs == last'.wrapped
                model == last'.model
                calls == last'.calls
            IN  /\ trigs = last.wrapped
                /\ Len(calls) <= Len(trigs)
                /\ \A i \in 1..Len(calls) :
                      /\ calls[i].key = format(model.label, trigs[i].name)
                      /\ calls[i].model = model
                      /\ calls[i].trigger = trigs[i]
                      /\ i < Len(calls) => calls[i].error = "ok"
                /\ keys(registry') =
                      keys(registry) \cup
                        {calls[i].key : i \in {j \in 1..Len(calls) : calls[j].error = "ok"}}
                /\ IF last'.error = "ok"
                   THEN /\ Len(calls) = Len(trigs)
                        /\ \A i \in 1..Len(calls) : calls[i].error = "ok"
                        /\ \A i \in 1..Len(trigs) :
                              \E j \in i..Len(trigs) :
                                 /\ trigs[j].name = trigs[i].name
                                 /\ is_stored(registry', calls[i].key, model, trigs[j])
                        /\ last'.returned = model
                   ELSE /\ calls # <<>>
                        /\ calls[Len(calls)].error = last'.error]_vars

\* C13 witness: the function has stored its first trigger and failed on its
\* second one.
C13_Witness ==
    /\ last.op = "apply" /\ last.error = "DuplicateName"
    /\ Len(last.wrapped) = 2 /\ Len(last.calls) = 2
    /\ registry = <<[key |-> last.calls[1].key, model |-> last.model,
                     trigger |-> last.wrapped[1]]>>

\* C17: with synchronization enabled, a delete of a key of the registry whose
\* trigger is in the live list of its model succeeds, whatever the original
\* list of the model holds or lacks; an original list without the trigger
\* stays as it was, and no other element of it is removed.
C17_DeleteToleratesOriginalWithoutTrigger ==
    [][(/\ last'.op = "delete" /\ last'.sync
        /\ has_key(registry, last'.key)
        /\ contains(get_or_empty(triggers[lookup(registry, last'.key).model.id]),
                    lookup(registry, last'.key).trigger))
          => LET id == lookup(registry, last'.key).model.id
                 trigger == lookup(registry, last'.key).trigger
             IN  /\ last'.error = "ok"
                 /\ ~contains(get_or_empty(original[id]), trigger) => original' = original
                 /\ \A t \in Triggers \ {trigger} :
                       count(get_or_empty(original'[id]), t)
                         = count(get_or_empty(original[id]), t)]_vars

\* C19: a successful set of a new entry with synchronization enabled treats
\* each list of the model on its own: a list that holds the trigger stays as
\* it was, a list that does not becomes its elements, in their order, followed
\* by the trigger; the lists of the other models stay as they were.
C19_AppendsAreIndependent ==
    [][(/\ last'.op = "set" /\ last'.error = "ok" /\ last'.sync
        /\ ~has_key(registry, last'.key))
          => LET id == last'.model.id
                 trigger == last'.trigger
                 appended(old, new) ==
                    IF contains(get_or_empty(old), trigger)
                    THEN new = old
                    ELSE new = a_list(Append(get_or_empty(old), trigger))
             IN  /\ appended(triggers[id], triggers'[id])
                 /\ appended(original[id], original'[id])
                 /\ \A other \in ModelIds \ {id} :
                       /\ triggers'[other] = triggers[other]
                       /\ original'[other] = original[other]]_vars

\* C19 witness: after a successful set of a new entry the live list of the
\* model holds the trigger alone and the original list holds another trigger
\* before it.
C19_Witness ==
    /\ last.op = "set" /\ last.error = "ok" /\ last.sync
    /\ Len(registry) = 1
    /\ triggers[last.model.id] = a_list(<<last.trigger>>)
    /\ Len(get_or_empty(original[last.model.id])) = 2
    /\ original[last.model.id].items[1] # last.trigger
    /\ original[last.model.id].items[2] = last.trigger

\* A step of a call of this kind writes a list of a model.
writes_list(op) ==
    last'.op = op /\ (triggers' # triggers \/ original' # original)

\* C20, the part on delete: a step of a delete that writes a list of a model
\* comes after the key has left the registry.
delete_order == writes_list("delete") => ~has_key(registry', last'.key)

\* C20, as claimed: a step of a set that writes a list of a model comes after
\* the key has entered the registry, and a step of a delete that writes one
\* comes after the key has left it.
C20_StoreThenMirror ==
    [][/\ writes_list("set") => has_key(registry', last'.key)
       /\ delete_order]_vars

\* C20, amended: a set fails only in its checks, before any write; it writes
\* the lists of the model while it runs, with the registry as it was, and
\* ends with the write of the entry, when both lists hold the trigger if
\* synchronization is enabled. A step of a delete that writes a list comes
\* after the key has left the registry.
C20_MirrorThenStore ==
    [][/\ (last'.op = "set" /\ last'.error \notin {"ok", "running"})
            => idle /\ UNCHANGED <<registry, triggers, original>>
       /\ writes_list("set")
            => last'.error = "running" /\ registry' = registry
       /\ (last'.op = "set" /\ last'.error = "ok")
            => /\ ~idle
               /\ registry' = store(registry, last.key, last.model, last.trigger)
               /\ UNCHANGED <<triggers, original>>
               /\ last'.sync =>
                     /\ contains(get_or_empty(triggers[last.model.id]), last.trigger)
                     /\ contains(get_or_empty(original[last.model.id]), last.trigger)
       /\ delete_order]_vars

\* C20 witness: a set of a new entry has written both lists of the model and
\* has yet to write the registry.
C20_Witness ==
    /\ last.op = "set" /\ last.error = "running" /\ last.sync
    /\ last.pc = "store"
    /\ ~has_key(registry, last.key)
    /\ contains(get_or_empty(triggers[last.model.id]), last.trigger)
    /\ contains(get_or_empty(original[last.model.id]), last.trigger)

====
